---------------------------- MODULE Spec2Model ----------------------------
(***************************************************************************)
(* A model of the CSV stream reader of src/src/reader.rs: the buffered     *)
(* read loop that drives the csv_core tokenizer, the position tracker,     *)
(* the header cache, the field-count check and seeking.                    *)
(*                                                                         *)
(* Bytes are numbers.  A ByteRecord is its flat storage: a byte buffer     *)
(* `fields`, the field-end offsets `ends` and the field count `len`.       *)
(* The tokenizer (csv_core) and the record storage (byte_record.rs) are    *)
(* not part of src/; they are modelled from their contract.                *)
(***************************************************************************)
EXTENDS Integers, Sequences, FiniteSets, TLC

\* ------------------------------------------------------------------ bounds
\* Most lines of an input.
MaxLines == 3
\* read_record_bytes calls counted by the history variable `hist`.
MaxReads == 4
\* The source reads of one call after which a failing source fails.
MaxFills == 2
\* The largest number of bytes a short read of the source delivers.
MaxChunk == 2

\* ------------------------------------------------------------------ bytes
\* The field delimiter b','.
DELIM == 44
\* The record terminator b'\n'.
LF == 10
\* A data byte, b'a'.
CHAR_A == 97
\* A byte that is not valid text.
BYTE_FF == 255
\* BufReader capacity, 8 * (1 << 10).
capacity == 8192

\* The lines inputs are made of: one field, two fields, an empty line.
Lines == {<< CHAR_A >>, << CHAR_A, DELIM, CHAR_A >>, << >>}

None == [none |-> TRUE]
Some(x) == [none |-> FALSE, some |-> x]

Min(a, b) == IF a < b THEN a ELSE b
Max(a, b) == IF a < b THEN b ELSE a

RECURSIVE SeqsUpTo(_, _)
SeqsUpTo(S, n) ==
    IF n = 0 THEN {<< >>}
    ELSE LET shorter == SeqsUpTo(S, n - 1)
         IN  shorter \cup {Append(s, b) : s \in {t \in shorter : Len(t) = n - 1}, b \in S}

\* ------------------------------------------------------------- Position
Position_new == [byte |-> 0, line |-> 1, record |-> 0]

\* ---------------------------------------------------- record storage
\* ByteRecord::new(): no storage yet.
ByteRecord_new == [fields |-> << >>, ends |-> << >>, len |-> 0]

\* record.clear(): the field count is reset, the storage is kept.
clear(record) == [record EXCEPT !.len = 0]

Zeros(n) == [i \in 1..n |-> 0]

\* A growth that adds no room.
expand_fields_adds_nothing(record) == record

\* Growth by doubling, at least 4 slots; what is written already is kept.
expand_fields(record) ==
    [record EXCEPT !.fields = @ \o Zeros(Max(4, 2 * Len(@)) - Len(@))]

expand_ends(record) ==
    [record EXCEPT !.ends = @ \o Zeros(Max(4, 2 * Len(@)) - Len(@))]

set_len(record, n) == [record EXCEPT !.len = n]

\* The fields of a record, as a sequence of byte sequences: field i is
\* fields[ends[i-1] .. ends[i]).
\* A field whose end lies beyond the storage cannot be sliced (the access
\* panics); it is shown as OutOfRange, a field no input holds.
OutOfRange == << -1 >>

Field(record, i) ==
    LET lo == IF i = 1 THEN 0 ELSE record.ends[i - 1]
        hi == record.ends[i]
    IN  IF hi > Len(record.fields) THEN OutOfRange
        ELSE [j \in 1..(hi - lo) |-> record.fields[lo + j]]

Fields(record) == [i \in 1..record.len |-> Field(record, i)]

\* A record built from its fields (what a caller hands to set_headers).
RECURSIVE Flatten(_)
Flatten(fs) == IF fs = << >> THEN << >> ELSE Head(fs) \o Flatten(Tail(fs))

RECURSIVE EndsOf(_, _)
EndsOf(fs, base) ==
    IF fs = << >> THEN << >>
    ELSE << base + Len(Head(fs)) >> \o EndsOf(Tail(fs), base + Len(Head(fs)))

MkRecord(fs) == [fields |-> Flatten(fs), ends |-> EndsOf(fs, 0), len |-> Len(fs)]

\* -------------------------------------------------------------- tokenizer
\* csv_core::Reader: the parse state, the line counter and the output
\* offset of the record in progress.
CoreReader_new == [st |-> "StartRecord", line |-> 1, output_pos |-> 0]

core_reset(core) == CoreReader_new
core_set_line(core, line) == [core EXCEPT !.line = line]
core_line(core) == core.line

is_start(st) == st \in {"StartRecord", "EndRecord"}

\* One byte: the next state, whether the byte is copied to the output,
\* whether a field ends and whether the record ends.
Transition(st, b) ==
    IF b = LF THEN
        IF is_start(st)
        THEN [st |-> "StartRecord", out |-> FALSE, end_field |-> FALSE, end_record |-> FALSE]
        ELSE [st |-> "EndRecord", out |-> FALSE, end_field |-> TRUE, end_record |-> TRUE]
    ELSE IF b = DELIM THEN
        [st |-> "StartField", out |-> FALSE, end_field |-> TRUE, end_record |-> FALSE]
    ELSE
        [st |-> "InField", out |-> TRUE, end_field |-> FALSE, end_record |-> FALSE]

\* The scan of read_record: bytes are taken while there is input, output
\* room and boundary room, and the record is not complete.
RECURSIVE Scan(_, _, _, _, _)
Scan(core, input, oroom, eroom, acc) ==
    LET Step(a) ==
            IF ~(a.nin < Len(input) /\ Len(a.out) < oroom /\ Len(a.ends) < eroom)
            THEN a
            ELSE LET b   == input[a.nin + 1]
                     t   == Transition(a.st, b)
                     out == IF t.out THEN Append(a.out, b) ELSE a.out
                     nxt == [st   |-> t.st,
                             line |-> a.line + (IF b = LF THEN 1 ELSE 0),
                             nin  |-> a.nin + 1,
                             out  |-> out,
                             ends |-> IF t.end_field
                                      THEN Append(a.ends, core.output_pos + Len(out))
                                      ELSE a.ends]
                 IN  IF t.end_record THEN nxt ELSE Scan(core, input, oroom, eroom, nxt)
    IN  CHOOSE r \in {Step(a) : a \in {acc}} : TRUE

\* core.read_record(input, output, ends), with `oroom` and `eroom` the sizes
\* of the two output regions.  The result names the outcome, the bytes
\* consumed, the bytes written and the boundaries written.
core_read_record(core, input, oroom, eroom) ==
    IF input = << >> THEN
        IF is_start(core.st)
        THEN [core |-> [core EXCEPT !.st = "StartRecord"], res |-> "End",
              nin |-> 0, out |-> << >>, ends |-> << >>]
        ELSE IF eroom = 0
        THEN [core |-> core, res |-> "OutputEndsFull",
              nin |-> 0, out |-> << >>, ends |-> << >>]
        ELSE [core |-> [core EXCEPT !.st = "EndRecord", !.output_pos = 0],
              res |-> "Record", nin |-> 0, out |-> << >>,
              ends |-> << core.output_pos >>]
    ELSE IF oroom = 0
    THEN [core |-> core, res |-> "OutputFull", nin |-> 0, out |-> << >>, ends |-> << >>]
    ELSE IF eroom = 0
    THEN [core |-> core, res |-> "OutputEndsFull", nin |-> 0, out |-> << >>, ends |-> << >>]
    ELSE
        LET Outcome(acc) ==
                IF acc.st = "EndRecord" THEN "Record"
                ELSE IF acc.nin < Len(input) /\ Len(acc.out) >= oroom THEN "OutputFull"
                ELSE IF acc.nin < Len(input) /\ Len(acc.ends) >= eroom THEN "OutputEndsFull"
                ELSE "InputEmpty"
            Result(acc, res) ==
                [core |-> [st |-> acc.st, line |-> acc.line,
                           output_pos |-> IF res = "Record" THEN 0
                                          ELSE core.output_pos + Len(acc.out)],
                 res |-> res, nin |-> acc.nin, out |-> acc.out, ends |-> acc.ends]
            Scanned(acc) == Result(acc, Outcome(acc))
        IN  Scanned(Scan(core, input, oroom, eroom,
                         [st |-> core.st, line |-> core.line, nin |-> 0,
                          out |-> << >>, ends |-> << >>]))

\* ---------------------------------------------------------------- results
Ok(v) == [ok |-> TRUE, val |-> v]
Err(e) == [ok |-> FALSE, err |-> e]

Error_Seek == [kind |-> "Seek"]
Error_Io == [kind |-> "Io"]
Error_UnequalLengths(expected_len, pos, len) ==
    [kind |-> "UnequalLengths", expected_len |-> expected_len, pos |-> pos, len |-> len]
Error_Utf8(pos, err) == [kind |-> "Utf8", pos |-> pos, err |-> err]

\* ------------------------------------------------------- text decoding
\* A byte is valid text on its own iff it is ASCII; the model's inputs hold
\* no multi-byte sequences.
ValidByte(b) == b < 128

ValidUpTo(field) ==
    IF \A j \in 1..Len(field) : ValidByte(field[j]) THEN Len(field)
    ELSE (CHOOSE j \in 1..Len(field) :
              /\ ~ValidByte(field[j])
              /\ \A i \in 1..(j - 1) : ValidByte(field[i])) - 1

\* StringRecord::from_byte_record: the record as text, or the first field
\* that is not valid text and how far it is valid.
StringRecord_from_byte_record(bytes) ==
    LET fs  == Fields(bytes)
        bad == {i \in 1..Len(fs) : ValidUpTo(fs[i]) < Len(fs[i])}
    IN  IF bad = {} THEN Ok([string |-> bytes])
        ELSE LET i == CHOOSE x \in bad : \A y \in bad : x <= y
             IN  Err([field |-> i - 1, valid_up_to |-> ValidUpTo(fs[i])])

\* StringRecord::into_byte_record.
into_byte_record(string) == string.string

\* --------------------------------------------------------------- BufReader
\* The byte source `inner`, the offset `pos` of the next byte not yet
\* consumed, and the number `filled` of bytes buffered from that offset on.
BufReader_new(inner) == [inner |-> inner, pos |-> 0, filled |-> 0]

\* fill_buf(): an empty buffer is refilled by one read of the source, which
\* delivers at most `k` bytes.
fill_buf(rdr, k) ==
    IF rdr.filled > 0 THEN rdr
    ELSE [rdr EXCEPT !.filled = Min(k, Max(0, Len(rdr.inner) - rdr.pos))]

buffer(rdr) == SubSeq(rdr.inner, rdr.pos + 1, rdr.pos + rdr.filled)

consume(rdr, n) == [rdr EXCEPT !.pos = @ + n, !.filled = @ - n]

\* BufReader::seek(SeekFrom::Start(n)): the buffer is discarded.
rdr_seek(rdr, n) == [rdr EXCEPT !.pos = n, !.filled = 0]

\* ------------------------------------------------------------------ Reader
ReaderState_new(has_headers, flexible) ==
    [headers |-> None,
     has_headers |-> has_headers,
     flexible |-> flexible,
     first_field_count |-> None,
     prev_pos |-> Position_new,
     cur_pos |-> Position_new,
     seeked |-> FALSE,
     first |-> FALSE,
     eof |-> FALSE]

Reader_new(has_headers, flexible, inner) ==
    [core |-> CoreReader_new,
     rdr |-> BufReader_new(inner),
     state |-> ReaderState_new(has_headers, flexible)]

\* position() answering with the start of the record read last.
position_of_last_record(R) == R.state.prev_pos
position(R) == R.state.cur_pos

\* A check that remembers the first count in flexible mode too.
field_count_check_remembers_when_flexible(state, num_fields) ==
    IF state.first_field_count = None
    THEN [state |-> [state EXCEPT !.first_field_count = Some(num_fields)], err |-> None]
    ELSE IF state.flexible THEN [state |-> state, err |-> None]
    ELSE LET expected == state.first_field_count.some
         IN  IF num_fields # expected
             THEN [state |-> state,
                   err |-> Some(Error_UnequalLengths(expected, state.prev_pos, num_fields))]
             ELSE [state |-> state, err |-> None]

\* A check that takes a differing count as the expected count from then on.
field_count_check_adopts(state, num_fields) ==
    IF state.flexible THEN [state |-> state, err |-> None]
    ELSE IF state.first_field_count = None
    THEN [state |-> [state EXCEPT !.first_field_count = Some(num_fields)], err |-> None]
    ELSE LET expected == state.first_field_count.some
         IN  IF num_fields # expected
             THEN [state |-> [state EXCEPT !.first_field_count = Some(num_fields)],
                   err |-> Some(Error_UnequalLengths(expected, state.prev_pos, num_fields))]
             ELSE [state |-> state, err |-> None]

\* A check that is made in flexible mode too.
field_count_check_always(state, num_fields) ==
    IF state.first_field_count = None
    THEN [state |-> [state EXCEPT !.first_field_count = Some(num_fields)], err |-> None]
    ELSE LET expected == state.first_field_count.some
         IN  IF num_fields # expected
             THEN [state |-> state,
                   err |-> Some(Error_UnequalLengths(expected, state.prev_pos, num_fields))]
             ELSE [state |-> state, err |-> None]

\* The strict-mode check of add_record: the first count is remembered, a
\* later different count is an error.
field_count_check(state, num_fields) ==
    IF state.flexible THEN [state |-> state, err |-> None]
    ELSE IF state.first_field_count = None
    THEN [state |-> [state EXCEPT !.first_field_count = Some(num_fields)], err |-> None]
    ELSE LET expected == state.first_field_count.some
         IN  IF num_fields # expected
             THEN [state |-> state,
                   err |-> Some(Error_UnequalLengths(expected, state.prev_pos, num_fields))]
             ELSE [state |-> state, err |-> None]

\* An add_record that counts a record only once it is accepted.
add_record_counts_accepted(state, num_fields) ==
    LET c == field_count_check(state, num_fields)
    IN  IF c.err # None THEN c
        ELSE [state |-> [c.state EXCEPT !.cur_pos.record = @ + 1,
                                        !.prev_pos = [c.state.cur_pos EXCEPT !.record = @ + 1]],
              err |-> None]

\* An add_record that moves prev_pos on for a rejected record too.
add_record_moves_prev_pos(state, num_fields) ==
    LET s1 == [state EXCEPT !.cur_pos.record = @ + 1]
        c  == field_count_check(s1, num_fields)
    IN  [state |-> [c.state EXCEPT !.prev_pos = c.state.cur_pos], err |-> c.err]

add_record(state, num_fields) ==
    LET s1 == [state EXCEPT !.cur_pos.record = @ + 1]
        c  == field_count_check(s1, num_fields)
    IN  IF c.err # None THEN c
        ELSE [state |-> [c.state EXCEPT !.prev_pos = c.state.cur_pos], err |-> None]

\* Output written at the start of the storage, whatever was written before.
write_parts_at_start(record, outlen, endlen, out, ends) ==
    [record EXCEPT
        !.fields = [i \in 1..Len(@) |-> IF i <= Len(out) THEN out[i] ELSE @[i]],
        !.ends = [i \in 1..Len(@) |-> IF i <= Len(ends) THEN ends[i] ELSE @[i]]]

\* The tokenizer's output written at fields[outlen..] and ends[endlen..].
write_parts(record, outlen, endlen, out, ends) ==
    [record EXCEPT
        !.fields = [i \in 1..Len(@) |->
                      IF i > outlen /\ i <= outlen + Len(out) THEN out[i - outlen] ELSE @[i]],
        !.ends = [i \in 1..Len(@) |->
                      IF i > endlen /\ i <= endlen + Len(ends) THEN ends[i - endlen] ELSE @[i]]]

\* The loop of read_record_bytes_impl.  `k` is the number of bytes one read
\* of the source delivers at most; `fail`, when set, is the number of source
\* reads of this call that succeed before the source fails; `nfill` counts
\* the source reads made so far.
RECURSIVE read_loop(_, _, _, _, _, _, _)
read_loop(R, record, outlen, endlen, k, fail, nfill) ==
    IF R.rdr.filled = 0 /\ fail = Some(nfill)
    THEN [R |-> R, record |-> record, ret |-> Err(Error_Io), nfill |-> nfill]
    ELSE
    LET n1 == IF R.rdr.filled = 0 THEN nfill + 1 ELSE nfill
        Added(R1, rec1, end1, a) ==
            [R |-> [R1 EXCEPT !.state = a.state],
             record |-> set_len(rec1, end1),
             ret |-> IF a.err # None THEN Err(a.err.some) ELSE Ok(a.state.eof),
             nfill |-> n1]
        Matched(res, R1, rec1, out1, end1) ==
            CASE res = "InputEmpty" -> read_loop(R1, rec1, out1, end1, k, fail, n1)
              [] res = "OutputFull" ->
                    read_loop(R1, expand_fields(rec1), out1, end1, k, fail, n1)
              [] res = "OutputEndsFull" ->
                    read_loop(R1, expand_ends(rec1), out1, end1, k, fail, n1)
              [] res = "Record" -> Added(R1, rec1, end1, add_record(R1.state, end1))
              [] res = "End" ->
                    [R |-> [R1 EXCEPT !.state.eof = TRUE], record |-> rec1,
                     ret |-> Ok(TRUE), nfill |-> n1]
        Parsed(rdr1, t) ==
            Matched(t.res,
                    [core |-> t.core,
                     rdr |-> consume(rdr1, t.nin),
                     state |-> [R.state EXCEPT !.cur_pos.byte = @ + t.nin,
                                               !.cur_pos.line = core_line(t.core)]],
                    write_parts(record, outlen, endlen, t.out, t.ends),
                    outlen + Len(t.out),
                    endlen + Len(t.ends))
        Filled(rdr1) ==
            Parsed(rdr1, core_read_record(R.core, buffer(rdr1),
                                          Len(record.fields) - outlen,
                                          Len(record.ends) - endlen))
    IN  Filled(fill_buf(R.rdr, k))

read_record_bytes_impl(R, record, k, fail, nfill) ==
    IF R.state.eof
    THEN [R |-> R, record |-> clear(record), ret |-> Ok(TRUE), nfill |-> nfill]
    ELSE read_loop(R, clear(record), 0, 0, k, fail, nfill)

\* set_headers_pos that leaves a header already cached in place.
set_headers_pos_unless_cached(state, headers, pos) ==
    LET both == IF headers.ok
                THEN [str |-> Ok(headers.val), bytes |-> into_byte_record(headers.val)]
                ELSE [str |-> StringRecord_from_byte_record(headers.err),
                      bytes |-> headers.err]
    IN  IF state.headers # None THEN state
        ELSE [state EXCEPT !.headers =
                 Some([pos |-> pos, byte_record |-> both.bytes, string_record |-> both.str])]

set_headers_pos(state, headers, pos) ==
    LET both == IF headers.ok
                THEN [str |-> Ok(headers.val), bytes |-> into_byte_record(headers.val)]
                ELSE [str |-> StringRecord_from_byte_record(headers.err),
                      bytes |-> headers.err]
    IN  [state EXCEPT !.headers =
            Some([pos |-> pos, byte_record |-> both.bytes, string_record |-> both.str])]

\* The common first half of headers() and byte_headers(): an unset cache is
\* filled by one raw read, unless the stream was seeked.
load_headers(R, k, fail) ==
    IF R.state.headers # None THEN [R |-> R, ret |-> Ok(TRUE)]
    ELSE IF R.state.seeked THEN [R |-> R, ret |-> Err(Error_Seek)]
    ELSE LET pos == position(R)
             Loaded(t) ==
                 IF ~t.ret.ok THEN [R |-> t.R, ret |-> t.ret]
                 ELSE [R |-> [t.R EXCEPT !.state =
                                 set_headers_pos(t.R.state, Err(t.record), Some(pos))],
                       ret |-> Ok(TRUE)]
         IN  Loaded(read_record_bytes_impl(R, ByteRecord_new, k, fail, 0))

\* headers() with the decoding error left without its position.
headers_without_pos(R, k, fail) ==
    LET Found(r, h) ==
            [R |-> r,
             ret |-> IF h.string_record.ok THEN Ok(h.string_record.val)
                     ELSE Err(Error_Utf8(None, h.string_record.err))]
        Get(l) == IF ~l.ret.ok THEN l ELSE Found(l.R, l.R.state.headers.some)
    IN  Get(load_headers(R, k, fail))

headers(R, k, fail) ==
    LET Found(r, h) ==
            [R |-> r,
             ret |-> IF h.string_record.ok THEN Ok(h.string_record.val)
                     ELSE Err(Error_Utf8(h.pos, h.string_record.err))]
        Get(l) == IF ~l.ret.ok THEN l ELSE Found(l.R, l.R.state.headers.some)
    IN  Get(load_headers(R, k, fail))

byte_headers(R, k, fail) ==
    LET Get(l) ==
            IF ~l.ret.ok THEN l
            ELSE [R |-> l.R, ret |-> Ok(l.R.state.headers.some.byte_record)]
    IN  Get(load_headers(R, k, fail))

set_headers(R, hdrs) ==
    [R EXCEPT !.state = set_headers_pos(R.state, Ok(hdrs), None)]

set_byte_headers(R, hdrs) ==
    [R EXCEPT !.state = set_headers_pos(R.state, Err(hdrs), None)]

\* A replay that does not look at whether a record was delivered already.
replays_header_every_read(state) ==
    ~state.has_headers /\ state.headers # None

\* A replay guarded by has_headers being set.
replays_header_when_suppressed(state) ==
    state.has_headers /\ ~state.first /\ state.headers # None

\* The guard of the header replay of read_record_bytes.
replays_header(state) ==
    ~state.has_headers /\ ~state.first /\ state.headers # None

\* A cache that every read of a stream not seeked fills again.
caches_headers_after_every_read(state) == ~state.seeked

\* A cache that is never filled by a read.
caches_headers_never(state) == FALSE

\* A cache that a read fills on a stream that was seeked too.
caches_headers_after_seek(state) == state.headers = None

\* The guard under which a record just read is cached as the headers.
caches_headers(state) ==
    ~state.seeked /\ state.headers = None

\* A read_record_bytes whose replay passes the cached header through
\* add_record, as a record parsed from the source is.
read_record_bytes_counts_replay(R, record, k, fail) ==
    IF replays_header(R.state)
    THEN LET hdr == R.state.headers.some.byte_record
             Added(a) ==
                 [R |-> [R EXCEPT !.state = [a.state EXCEPT !.first = TRUE]],
                  record |-> hdr,
                  ret |-> IF a.err # None THEN Err(a.err.some) ELSE Ok(R.state.eof)]
         IN  Added(add_record(R.state, hdr.len))
    ELSE
    LET pos == position(R)
        Out(u) == [R |-> u.R, record |-> u.record, ret |-> u.ret]
        Cached(t, R2) ==
            IF R2.state.has_headers
            THEN Out(read_record_bytes_impl(R2, t.record, k, fail, t.nfill))
            ELSE [R |-> R2, record |-> t.record, ret |-> t.ret]
        First(t, R1) ==
            IF caches_headers(R1.state)
            THEN Cached(t, [R1 EXCEPT !.state =
                                set_headers_pos(R1.state, Err(t.record), Some(pos))])
            ELSE [R |-> R1, record |-> t.record, ret |-> t.ret]
        Read(t) ==
            IF ~t.ret.ok THEN Out(t)
            ELSE First(t, [t.R EXCEPT !.state.first = TRUE])
    IN  Read(read_record_bytes_impl(R, record, k, fail, 0))

read_record_bytes(R, record, k, fail) ==
    IF replays_header(R.state)
    THEN [R |-> [R EXCEPT !.state.first = TRUE],
          record |-> R.state.headers.some.byte_record,
          ret |-> Ok(R.state.eof)]
    ELSE
    LET pos == position(R)
        Out(u) == [R |-> u.R, record |-> u.record, ret |-> u.ret]
        Cached(t, R2) ==
            IF R2.state.has_headers
            THEN Out(read_record_bytes_impl(R2, t.record, k, fail, t.nfill))
            ELSE [R |-> R2, record |-> t.record, ret |-> t.ret]
        First(t, R1) ==
            IF caches_headers(R1.state)
            THEN Cached(t, [R1 EXCEPT !.state =
                                set_headers_pos(R1.state, Err(t.record), Some(pos))])
            ELSE [R |-> R1, record |-> t.record, ret |-> t.ret]
        Read(t) ==
            IF ~t.ret.ok THEN Out(t)
            ELSE First(t, [t.R EXCEPT !.state.first = TRUE])
    IN  Read(read_record_bytes_impl(R, record, k, fail, 0))

\* A raw seek that leaves the end-of-stream flag as it is.
seek_raw_keeps_eof(R, seek_from, pos, fail) ==
    IF fail THEN [R |-> R, ret |-> Err(Error_Io)]
    ELSE [R |-> [core |-> core_set_line(core_reset(R.core), pos.line),
                 rdr |-> rdr_seek(R.rdr, seek_from),
                 state |-> [R.state EXCEPT !.seeked = TRUE,
                                           !.prev_pos = pos,
                                           !.cur_pos = pos]],
          ret |-> Ok(TRUE)]

\* A raw seek that does not record that the stream was seeked.
seek_raw_unmarked(R, seek_from, pos, fail) ==
    IF fail THEN [R |-> R, ret |-> Err(Error_Io)]
    ELSE [R |-> [core |-> core_set_line(core_reset(R.core), pos.line),
                 rdr |-> rdr_seek(R.rdr, seek_from),
                 state |-> [R.state EXCEPT !.prev_pos = pos,
                                           !.cur_pos = pos,
                                           !.eof = FALSE]],
          ret |-> Ok(TRUE)]

\* seek_raw(SeekFrom::Start(seek_from), pos); `fail` is a source whose seek
\* fails.
seek_raw(R, seek_from, pos, fail) ==
    IF fail THEN [R |-> R, ret |-> Err(Error_Io)]
    ELSE [R |-> [core |-> core_set_line(core_reset(R.core), pos.line),
                 rdr |-> rdr_seek(R.rdr, seek_from),
                 state |-> [R.state EXCEPT !.seeked = TRUE,
                                           !.prev_pos = pos,
                                           !.cur_pos = pos,
                                           !.eof = FALSE]],
          ret |-> Ok(TRUE)]

\* A seek() that always seeks.
seek_never_noop(R, pos) == FALSE

\* A guard of seek() that compares line numbers, not byte offsets.
seek_is_noop_by_line(R, pos) == pos.line = R.state.cur_pos.line

\* A guard of seek() that compares whole positions.
seek_is_noop_at_position(R, pos) == pos = R.state.cur_pos

\* The guard of seek(): nothing is done for the current byte offset.
seek_is_noop(R, pos) == pos.byte = R.state.cur_pos.byte

seek(R, pos, fail) ==
    IF seek_is_noop(R, pos) THEN [R |-> R, ret |-> Ok(TRUE)]
    ELSE seek_raw(R, pos.byte, pos, fail)

\* ------------------------------------------------- the physical records
\* What the tokenizer makes of the source bytes from position `pos` on, given
\* the whole rest at once and room for all of it: the next record and the
\* position after it, or the end of the stream.
ParseAt(inner, pos) ==
    LET room == Len(inner) + 1
        Made(t1, last, ends) ==
            [is_record |-> last.res = "Record",
             fields    |-> IF last.res = "Record"
                           THEN Fields([fields |-> t1.out, ends |-> ends, len |-> Len(ends)])
                           ELSE << >>,
             start     |-> pos,
             end       |-> [byte   |-> pos.byte + t1.nin,
                            line   |-> last.core.line,
                            record |-> IF last.res = "Record" THEN pos.record + 1
                                       ELSE pos.record]]
        Both(t1, t2) ==
            IF t1.res = "InputEmpty" THEN Made(t1, t2, t1.ends \o t2.ends)
            ELSE Made(t1, t1, t1.ends)
        First(t1) == Both(t1, core_read_record(t1.core, << >>, room, room))
    IN  First(core_read_record(core_set_line(CoreReader_new, pos.line),
                               SubSeq(inner, pos.byte + 1, Len(inner)), room, room))

RECURSIVE PhysicalFrom(_, _)
PhysicalFrom(inner, pos) ==
    LET Rest(p) == IF p.is_record THEN << p >> \o PhysicalFrom(inner, p.end) ELSE << >>
    IN  Rest(ParseAt(inner, pos))

\* The physical records of the source, in order, each with the position it
\* starts at and the position after it.
Physical(inner) == PhysicalFrom(inner, Position_new)

\* The n-th physical record's fields; no fields when there is none.
Phys(inner, n) ==
    LET Nth(P) == IF n >= 1 /\ n <= Len(P) THEN P[n].fields ELSE << >>
    IN  Nth(Physical(inner))

\* The record boundaries of the source: where a record starts, and the
\* positions a reader is at after the last record and at the end.
Boundaries(inner) ==
    LET Ends(after) == {after, ParseAt(inner, after).end}
        All(P) == {P[i].start : i \in 1..Len(P)}
                    \cup Ends(IF P = << >> THEN Position_new ELSE P[Len(P)].end)
    IN  All(Physical(inner))

\* ------------------------------------------------------------------ state
VARIABLES
    core,     \* Reader.core: the tokenizer
    rdr,      \* Reader.rdr: the buffered byte source
    state,    \* Reader.state: ReaderState
    record,   \* the caller's record, reused across reads
    ret,      \* what the last read_record_bytes call returned
    hist      \* history: the reads counted while no seek was made and no
              \* header set by hand (reads), whether a seek moved the stream
              \* (seeks), whether a header was set by hand (sets), whether
              \* seek was called for a non-zero byte offset with no header
              \* cached and none set since (lost), whether seek was called
              \* for another byte offset than the current one, or seek_raw
              \* was called, with no header cached and none set since
              \* (moved), whether a read of the source failed (failed), and,
              \* when they are tracked (track), the positions the stream has
              \* been at (seen)

vars == << core, rdr, state, record, ret, hist >>

R == [core |-> core, rdr |-> rdr, state |-> state]

inner == rdr.inner

\* The lines of `ls`, each but the last followed by LF; the last one too
\* when `trailing`.
RECURSIVE Join(_, _)
Join(ls, trailing) ==
    IF ls = << >> THEN << >>
    ELSE IF Len(ls) = 1 THEN Head(ls) \o (IF trailing THEN << LF >> ELSE << >>)
    ELSE Head(ls) \o << LF >> \o Join(Tail(ls), trailing)

Inputs == {Join(ls, trailing) : ls \in SeqsUpTo(Lines, MaxLines), trailing \in BOOLEAN}

\* The headers a caller sets by hand.
HeaderChoices == {MkRecord(<< <<CHAR_A>>, <<CHAR_A>> >>)}

\* Positions a caller seeks to: record boundaries, and positions with the
\* current byte offset and another line and record index.
SamePlace(pos) == {[pos EXCEPT !.line = @ + 1, !.record = @ + 1]}

SeekTargets == Boundaries(inner) \cup SamePlace(state.cur_pos)

SetReader(r) ==
    /\ core' = r.core
    /\ rdr' = r.rdr
    /\ state' = r.state

\* A new reader over any input, with any configuration.  `track` says
\* whether the history keeps the positions the stream has been at.
Start(track) ==
    \E src \in Inputs, has_headers \in BOOLEAN, flexible \in BOOLEAN :
        /\ core = Reader_new(has_headers, flexible, src).core
        /\ rdr = Reader_new(has_headers, flexible, src).rdr
        /\ state = Reader_new(has_headers, flexible, src).state
        /\ record = ByteRecord_new
        /\ ret = None
        /\ hist = [reads |-> 0, seeks |-> FALSE, sets |-> FALSE, lost |-> FALSE,
                   moved |-> FALSE, failed |-> FALSE,
                   track |-> track, seen |-> {Position_new}]

Init == Start(FALSE)

InitSeen == Start(TRUE)

\* The reads counted while the history is plain: no seek, no header set by
\* hand, no failed read, at most MaxReads reads.
Plain(h) == ~h.seeks /\ ~h.sets /\ ~h.failed /\ h.reads <= MaxReads

CountRead(h) ==
    IF Plain(h) THEN [h EXCEPT !.reads = @ + 1] ELSE h

Forget(h) == [h EXCEPT !.reads = 0]

\* position() is an accessor: the positions it can have returned are the
\* positions the stream has been at between calls.
See(h, r) == IF h.track THEN [h EXCEPT !.seen = @ \cup {position(r)}] ELSE h

ReadRecordBytes ==
    \E t \in {read_record_bytes(R, record, capacity, None)} :
        /\ SetReader(t.R)
        /\ record' = t.record
        /\ ret' = Some(t.ret)
        /\ hist' = See(CountRead(hist), t.R)

Headers ==
    \E t \in {headers(R, capacity, None)} :
        /\ SetReader(t.R)
        /\ hist' = See(hist, t.R)
        /\ UNCHANGED << record, ret >>

ByteHeaders ==
    \E t \in {byte_headers(R, capacity, None)} :
        /\ SetReader(t.R)
        /\ hist' = See(hist, t.R)
        /\ UNCHANGED << record, ret >>

SetHeaders ==
    \E h \in HeaderChoices :
        /\ StringRecord_from_byte_record(h).ok
        /\ SetReader(set_headers(R, StringRecord_from_byte_record(h).val))
        /\ hist' = Forget([hist EXCEPT !.sets = TRUE, !.lost = FALSE, !.moved = FALSE])
        /\ UNCHANGED << record, ret >>

SetByteHeaders ==
    \E h \in HeaderChoices :
        /\ SetReader(set_byte_headers(R, h))
        /\ hist' = Forget([hist EXCEPT !.sets = TRUE, !.lost = FALSE, !.moved = FALSE])
        /\ UNCHANGED << record, ret >>

Seek ==
    \E pos \in SeekTargets :
        LET t == seek(R, pos, FALSE)
        IN  /\ SetReader(t.R)
            /\ hist' = LET h == [hist EXCEPT
                                    !.lost = @ \/ (state.headers = None /\ pos.byte # 0),
                                    !.moved = @ \/ (state.headers = None
                                                      /\ pos.byte # state.cur_pos.byte)]
                        IN  IF seek_is_noop(R, pos) THEN h
                            ELSE See(Forget([h EXCEPT !.seeks = TRUE]), t.R)
            /\ UNCHANGED << record, ret >>

SeekRaw ==
    \E pos \in Boundaries(inner) :
        LET t == seek_raw(R, pos.byte, pos, FALSE)
        IN  /\ SetReader(t.R)
            /\ hist' = See(Forget([hist EXCEPT !.seeks = TRUE,
                                                 !.moved = @ \/ state.headers = None]), t.R)
            /\ UNCHANGED << record, ret >>

Next ==
    \/ ReadRecordBytes
    \/ Headers
    \/ ByteHeaders
    \/ SetHeaders
    \/ SetByteHeaders
    \/ Seek
    \/ SeekRaw

Spec == Init /\ [][Next]_vars

\* The same reader, with the positions it has been at kept in the history.
SpecSeen == InitSeen /\ [][Next]_vars

\* A source that fails: the call returns the I/O error of the source read
\* that failed, with what the reads before it did to the reader left in place.
FailsAfter == 0..MaxFills

Failed(h) == Forget([h EXCEPT !.failed = TRUE])

ReadRecordBytesFails ==
    \E n \in FailsAfter :
        \E t \in {read_record_bytes(R, record, capacity, Some(n))} :
            /\ t.ret = Err(Error_Io)
            /\ SetReader(t.R)
            /\ record' = t.record
            /\ ret' = Some(t.ret)
            /\ hist' = See(Failed(hist), t.R)

HeadersFails ==
    \E n \in FailsAfter :
        \E t \in {headers(R, capacity, Some(n))} :
            /\ t.ret = Err(Error_Io)
            /\ SetReader(t.R)
            /\ hist' = See(Failed(hist), t.R)
            /\ UNCHANGED << record, ret >>

ByteHeadersFails ==
    \E n \in FailsAfter :
        \E t \in {byte_headers(R, capacity, Some(n))} :
            /\ t.ret = Err(Error_Io)
            /\ SetReader(t.R)
            /\ hist' = See(Failed(hist), t.R)
            /\ UNCHANGED << record, ret >>

NextIO ==
    \/ Next
    \/ ReadRecordBytesFails
    \/ HeadersFails
    \/ ByteHeadersFails

\* The same reader over a source whose reads can fail.
SpecIO == Init /\ [][NextIO]_vars

\* ------------------------------------------------------------ properties
\* The index of the physical record the n-th read of a stream that was never
\* seeked stands at: the header row is skipped when has_headers is set.
ReadIndex(n) == IF state.has_headers THEN n + 1 ELSE n

\* What the last read handed back: its fields, whether it reported the end of
\* the stream, whether it reported a length mismatch.
IsEof(r) == r.ok /\ r.val
IsMismatch(r) == ~r.ok /\ r.err.kind = "UnequalLengths"

\* The read history is known: reads were counted, none by seeking or after a
\* header was set by hand.
Counted == Plain(hist) /\ hist.reads >= 1

\* The record the header accessors return now, as fields.
HeadersNow == headers(R, capacity, None)
ByteHeadersNow == byte_headers(R, capacity, None)

HeaderAccessorsReturn(fs) ==
    /\ HeadersNow.ret.ok
    /\ Fields(into_byte_record(HeadersNow.ret.val)) = fs
    /\ ByteHeadersNow.ret.ok
    /\ Fields(ByteHeadersNow.ret.val) = fs

\* C1: with has_headers set, on a stream read without seeking, the N-th read
\* hands back the (N+1)-th physical record, and reports the end of the stream
\* exactly when there is none; headers() and byte_headers() return the first
\* physical record whenever they are called.
C1_SuppressedHeaderSkipsFirst ==
    (state.has_headers /\ Plain(hist)) =>
        /\ HeaderAccessorsReturn(Phys(inner, 1))
        /\ hist.reads >= 1 =>
              /\ Fields(record) = Phys(inner, hist.reads + 1)
              /\ ret.some.ok \/ IsMismatch(ret.some)
              /\ ret.some.ok => (ret.some.val = (hist.reads + 1 > Len(Physical(inner))))

\* Two reads were made, the second handed back the third physical record,
\* which differs from the second.
C1_Witness ==
    /\ state.has_headers
    /\ Plain(hist)
    /\ hist.reads = 2
    /\ ret.some.ok /\ ~ret.some.val
    /\ Fields(record) = Phys(inner, 3)
    /\ Phys(inner, 3) # Phys(inner, 2)
    /\ Phys(inner, 1) # Phys(inner, 2)

\* C2: with has_headers unset, on a stream read without seeking, the N-th
\* read hands back the N-th physical record, also when headers() or
\* byte_headers() was called before the first read or between reads, and the
\* header accessors return the first physical record whenever they are called.
C2_UnsuppressedHeaderIsRead ==
    (~state.has_headers /\ Plain(hist)) =>
        /\ HeaderAccessorsReturn(Phys(inner, 1))
        /\ hist.reads >= 1 =>
              /\ Fields(record) = Phys(inner, hist.reads)
              /\ ret.some.ok \/ IsMismatch(ret.some)
              /\ ret.some.ok => (ret.some.val = (hist.reads > Len(Physical(inner))))

\* Two reads were made, the second handed back the second physical record,
\* and the header accessor returns the first, which differs.
C2_Witness ==
    /\ ~state.has_headers
    /\ Plain(hist)
    /\ hist.reads = 2
    /\ ret.some.ok /\ ~ret.some.val
    /\ Fields(record) = Phys(inner, 2)
    /\ Phys(inner, 1) # Phys(inner, 2)
    /\ Fields(ByteHeadersNow.ret.val) = Phys(inner, 1)

\* A reader of the same source and configuration that only reads and never
\* seeks: its first `n` reads, each with the position it was issued at and
\* what it handed back (fields, end of stream).
RECURSIVE ReadsFrom(_, _, _)
ReadsFrom(r, rec, n) ==
    LET Then(t) ==
            << [at |-> position(r), fields |-> Fields(t.record), eof |-> IsEof(t.ret)] >>
                \o ReadsFrom(t.R, t.record, n - 1)
    IN  IF n = 0 THEN << >>
        ELSE Then(read_record_bytes(r, rec, capacity, None))

NonSeekedReads ==
    ReadsFrom(Reader_new(state.has_headers, state.flexible, inner),
              ByteRecord_new, Len(Physical(inner)) + 2)

\* The non-seeked read issued at position `p`, if there is one.
NonSeekedRead(reads, p) ==
    LET at == {i \in 1..Len(reads) : reads[i].at = p}
    IN  IF at = {} THEN None
        ELSE Some(reads[CHOOSE i \in at : \A j \in at : i <= j])

\* seek(p) now, and then a read.
AfterSeek(p) == seek(R, p, FALSE).R
ReadAfterSeek(p) == read_record_bytes(AfterSeek(p), record, capacity, None)

\* seek(p) and then a read hand back what the non-seeked read `ref` did.
Reproduces(t, ref) ==
    /\ Fields(t.record) = ref.fields
    /\ IsEof(t.ret) = ref.eof

HeaderRowIsData(r) == r.state.has_headers /\ (r.state.headers # None \/ r.state.seeked)

LastIndex == ReadIndex(hist.reads)
Rejected(n) ==
    /\ n >= 1 /\ n <= Len(Physical(inner))
    /\ Len(Phys(inner, n)) # Len(Phys(inner, 1))

\* C4: in strict mode, on a stream read without seeking, a read that parses a
\* record whose field count differs from the first record's returns a length
\* mismatch with expected_len the first record's count and len the count
\* seen, and no other read returns one; every read, the one right after a
\* mismatch included, hands back the physical record that follows the one the
\* read before it parsed, or reports the end of the stream.
C4_MismatchThenContinue ==
    (~state.flexible /\ Counted) =>
        /\ Fields(record) = Phys(inner, LastIndex)
        /\ IF Rejected(LastIndex)
           THEN /\ IsMismatch(ret.some)
                /\ ret.some.err.expected_len = Len(Phys(inner, 1))
                /\ ret.some.err.len = Len(Phys(inner, LastIndex))
           ELSE ret.some = Ok(LastIndex > Len(Physical(inner)))

\* The read right after a mismatch handed back the record that follows the
\* rejected one.
C4_Witness ==
    /\ ~state.flexible
    /\ Counted
    /\ Rejected(LastIndex - 1)
    /\ ret.some = Ok(FALSE)
    /\ Fields(record) = Phys(inner, LastIndex)
    /\ Len(Phys(inner, LastIndex)) = Len(Phys(inner, 1))

RECURSIVE LastAccepted(_)
LastAccepted(n) ==
    IF n <= 2 \/ ~Rejected(n - 1) THEN n - 1 ELSE LastAccepted(n - 1)

C6_FlexibleNeverMismatches ==
    state.flexible =>
        /\ ret # None => ~IsMismatch(ret.some)
        /\ ~IsMismatch(read_record_bytes(R, record, capacity, None).ret)
        /\ ~IsMismatch(HeadersNow.ret)
        /\ ~IsMismatch(ByteHeadersNow.ret)
        /\ Counted =>
              /\ ret.some = Ok(LastIndex > Len(Physical(inner)))
              /\ Fields(record) = Phys(inner, LastIndex)

\* A flexible read handed back a record whose field count is not the first
\* record's.
C6_Witness ==
    /\ state.flexible
    /\ Counted
    /\ Rejected(LastIndex)
    /\ ret.some = Ok(FALSE)
    /\ Len(Fields(record)) = Len(Phys(inner, LastIndex))
    /\ Len(Fields(record)) # Len(Phys(inner, 1))

\* Both header accessors fail with the seek error and leave the reader as it
\* is: no read is made.
HeaderAccessorsRefuse(r) ==
    /\ headers(r, capacity, None) = [R |-> r, ret |-> Err(Error_Seek)]
    /\ byte_headers(r, capacity, None) = [R |-> r, ret |-> Err(Error_Seek)]

AfterSeekToStart == seek(R, Position_new, FALSE).R
HeadersAfterSeekToStart == headers(AfterSeekToStart, capacity, None)

\* C8 as stated: after a seek to the start position headers() succeeds and
\* returns the first physical record, whatever happened before (no header
\* having been set by hand); a caller that got the seek error recovers so.
C8_Original ==
    ~hist.sets =>
        /\ HeadersAfterSeekToStart.ret.ok
        /\ Fields(into_byte_record(HeadersAfterSeekToStart.ret.val)) = Phys(inner, 1)

\* C8, amended: with no header set by hand, headers() after a seek to the
\* start position succeeds, with the first physical record, exactly when the
\* header is cached already or the stream was never moved by a seek and
\* stands at byte offset 0 (the seek to the start then does nothing and
\* headers() reads the first record); otherwise it fails with the seek error
\* and makes no read: seeking back to the start does not recover from it.
C8_SeekToStartThenHeaders ==
    LET Holds(t) ==
            IF state.headers # None \/ (~hist.seeks /\ state.cur_pos.byte = 0)
            THEN /\ t.ret.ok
                 /\ ~hist.failed =>
                       Fields(into_byte_record(t.ret.val)) = Phys(inner, 1)
            ELSE /\ t.ret = Err(Error_Seek)
                 /\ HeaderAccessorsRefuse(AfterSeekToStart)
    IN  ~hist.sets => Holds(HeadersAfterSeekToStart)

\* A caller got the seek error after a seek away from the start, and gets it
\* again after seeking back to the start.
C8_Witness ==
    /\ ~hist.sets
    /\ hist.seeks
    /\ state.cur_pos.byte # 0
    /\ Physical(inner) # << >>
    /\ HeadersNow.ret = Err(Error_Seek)
    /\ HeadersAfterSeekToStart.ret = Err(Error_Seek)

\* The header cache was filled from the stream: it holds the position the
\* header was read at.
CachedFromStream(st) == st.headers # None /\ st.headers.some.pos # None

\* C9: a header cache filled from the stream holds the first physical record
\* and both header accessors return it, after any sequence of reads, seeks,
\* raw seeks and header accesses; no step but set_headers or set_byte_headers
\* changes the cache, and none unsets it.
C9_CachedHeaderIsStable ==
    /\ [](CachedFromStream(state) =>
            /\ state.headers.some.pos.some = Position_new
            /\ HeaderAccessorsReturn(Phys(inner, 1))
            /\ HeadersNow.R = R
            /\ ByteHeadersNow.R = R)
    /\ [][(state.headers # None) =>
            /\ state'.headers # None
            /\ state'.headers = state.headers \/ state'.headers.some.pos = None]_vars

\* The header was cached from the stream, the stream was seeked and read on:
\* the record read is not the header, and the accessors return the header.
C9_Witness ==
    /\ CachedFromStream(state)
    /\ hist.seeks
    /\ state.cur_pos.record >= 2
    /\ ret # None /\ ret.some = Ok(FALSE)
    /\ Fields(record) # Phys(inner, 1)
    /\ HeaderAccessorsReturn(Phys(inner, 1))

\* C10: a read that reports the end of the stream hands back a record of zero
\* fields.
C10_EofRecordIsEmpty ==
    (ret # None /\ IsEof(ret.some)) => record.len = 0

\* What a read leaves behind, as a caller sees it: the record, the answer,
\* the position and the header cache (its record and its position).
Outcome(t) ==
    [fields |-> Fields(t.record),
     ret |-> t.ret,
     position |-> position(t.R),
     headers |-> IF t.R.state.headers = None THEN None
                 ELSE Some([fields |-> Fields(t.R.state.headers.some.byte_record),
                            pos |-> t.R.state.headers.some.pos])]

\* A read whose source fails after `n` source reads, in the middle of a
\* record, then the same read again with the source working.
FailedRead(n) == read_record_bytes(R, record, capacity, Some(n))
FailsMidRecord(f) == f.ret = Err(Error_Io) /\ ~is_start(f.R.core.st)
Retried(f) == read_record_bytes(f.R, f.record, capacity, None)

\* C11: on a stream never seeked and with no header set by hand, a read
\* retried after the source failed in the middle of a record leaves behind
\* what the read leaves behind when the source does not fail: the same
\* record, the same answer, the same position and the same header cache.
C11_RetryAfterIoFailure ==
    LET Same(f, good) == FailsMidRecord(f) => Outcome(Retried(f)) = Outcome(good)
    IN  (~hist.seeks /\ ~hist.sets /\ ~hist.failed) =>
            \A n \in FailsAfter :
                Same(FailedRead(n), read_record_bytes(R, record, capacity, None))

\* ------------------------------------------------ headers that are not text
\* Sources whose lines may hold a field that is not valid text.
TextLines == {<< CHAR_A, DELIM, CHAR_A, BYTE_FF >>, << CHAR_A >>}

TextInputs == {Join(ls, trailing) : ls \in SeqsUpTo(TextLines, MaxLines), trailing \in BOOLEAN}

\* The headers a caller sets by hand as raw bytes that are not valid text.
InvalidHeaderChoices == {MkRecord(<< <<CHAR_A>>, <<CHAR_A, BYTE_FF>> >>)}

InitText ==
    \E src \in TextInputs, has_headers \in BOOLEAN, flexible \in BOOLEAN :
        /\ core = Reader_new(has_headers, flexible, src).core
        /\ rdr = Reader_new(has_headers, flexible, src).rdr
        /\ state = Reader_new(has_headers, flexible, src).state
        /\ record = ByteRecord_new
        /\ ret = None
        /\ hist = [reads |-> 0, seeks |-> FALSE, sets |-> FALSE, lost |-> FALSE,
                   moved |-> FALSE, failed |-> FALSE,
                   track |-> FALSE, seen |-> {Position_new}]

SetByteHeadersInvalid ==
    \E h \in InvalidHeaderChoices :
        /\ SetReader(set_byte_headers(R, h))
        /\ hist' = Forget([hist EXCEPT !.sets = TRUE, !.lost = FALSE, !.moved = FALSE])
        /\ UNCHANGED << record, ret >>

NextText ==
    \/ Next
    \/ SetByteHeadersInvalid

\* The reader over sources and hand-set headers that need not be text.
SpecText == InitText /\ [][NextText]_vars

\* The decoding error of a record given as fields.
DecodeError(fs) == StringRecord_from_byte_record(MkRecord(fs)).err
IsText(fs) == StringRecord_from_byte_record(MkRecord(fs)).ok

\* The header comes from the stream: none was set by hand, and the stream
\* was not seeked before the header was cached.
HeaderFromStream == ~hist.sets /\ (state.headers # None \/ ~state.seeked)

\* headers() after set_byte_headers(h) on the current reader.
HeadersAfterSetBytes(h) == headers(set_byte_headers(R, h), capacity, None)

\* C12: when the first physical record is not valid text and the header
\* comes from the stream, byte_headers() returns its raw bytes and headers()
\* fails with the decoding error of that record tagged with the position
\* (byte 0, line 1, record 0), whenever they are called; the reads of a
\* stream read without seeking hand back the physical records in order as
\* they do for a text header; and when a header that is not valid text is
\* set with set_byte_headers, in any state, headers() fails with its decoding
\* error and no position.
C12_InvalidTextHeader ==
    LET first == Phys(inner, 1)
        Tagged(h, b) ==
            /\ b.ret.ok
            /\ Fields(b.ret.val) = first
            /\ h.ret = Err(Error_Utf8(Some(Position_new), DecodeError(first)))
        Untagged(hc, h) ==
            h.ret = Err(Error_Utf8(None, DecodeError(Fields(hc))))
    IN  /\ (HeaderFromStream /\ ~IsText(first)) => Tagged(HeadersNow, ByteHeadersNow)
        /\ (Counted /\ ~IsText(first)) =>
              /\ Fields(record) = Phys(inner, ReadIndex(hist.reads))
              /\ ret.some.ok \/ IsMismatch(ret.some)
              /\ ret.some.ok =>
                    (ret.some.val = (ReadIndex(hist.reads) > Len(Physical(inner))))
        /\ \A hc \in InvalidHeaderChoices : Untagged(hc, HeadersAfterSetBytes(hc))
        /\ (hist.sets /\ state.headers # None
              /\ ~state.headers.some.string_record.ok) =>
              HeadersNow.ret = Err(Error_Utf8(None, state.headers.some.string_record.err))

\* The first record is not text, reads have gone past it to the end of the
\* stream, and headers() fails with the error tagged with the start.
C12_Witness ==
    /\ ~IsText(Phys(inner, 1))
    /\ ~hist.sets /\ ~hist.seeks
    /\ Counted /\ hist.reads >= 2
    /\ IsEof(ret.some)
    /\ ~HeadersNow.ret.ok
    /\ HeadersNow.ret.err.kind = "Utf8"
    /\ HeadersNow.ret.err.pos = Some(Position_new)
    /\ HeadersNow.ret.err.err = [field |-> 1, valid_up_to |-> 1]
    /\ ByteHeadersNow.ret.ok

\* A header that is not text was set by hand after reads, and headers() fails
\* with no position.
C12_WitnessManual ==
    /\ hist.sets
    /\ state.cur_pos.record >= 1
    /\ HeadersNow.ret = Err(Error_Utf8(None, [field |-> 1, valid_up_to |-> 1]))

\* ------------------------------------------------------ headers set by hand
\* The header accessors on reader r.
HeadersOf(r) == headers(r, capacity, None)
ByteHeadersOf(r) == byte_headers(r, capacity, None)

\* The text form of a byte record that is valid text.
AsText(b) == StringRecord_from_byte_record(b).val

\* What set_headers(s) leaves: both accessors return s, as text and as bytes,
\* without touching the reader, and the cache has no position.
AssignedText(r, s) ==
    /\ HeadersOf(r) = [R |-> r, ret |-> Ok(s)]
    /\ ByteHeadersOf(r) = [R |-> r, ret |-> Ok(into_byte_record(s))]
    /\ r.state.headers.some.pos = None

\* What set_byte_headers(b) leaves: byte_headers() returns b, headers() its
\* decoding or its decoding error, and the cache has no position.
AssignedBytes(r, b) ==
    /\ ByteHeadersOf(r) = [R |-> r, ret |-> Ok(b)]
    /\ HeadersOf(r).R = r
    /\ HeadersOf(r).ret = IF StringRecord_from_byte_record(b).ok
                          THEN Ok(AsText(b))
                          ELSE Err(Error_Utf8(None, StringRecord_from_byte_record(b).err))
    /\ r.state.headers.some.pos = None

\* The cached header was set by hand.
Manual(st) == st.headers # None /\ st.headers.some.pos = None

\* The states a header assignment leaves the reader in.
Assignments ==
    {set_headers(R, AsText(h)).state : h \in HeaderChoices}
        \cup {set_byte_headers(R, b).state : b \in HeaderChoices \cup InvalidHeaderChoices}

\* C13: in every state, set_headers(h) makes headers() return h and
\* byte_headers() the bytes of h, set_byte_headers(b) makes byte_headers()
\* return b and headers() the decoding of b or its decoding error, and both
\* leave the cache without a position; and a header set by hand stays cached
\* as it is through every read, header access and seek, until the next
\* assignment.
C13_ManualHeadersOverride ==
    /\ [](/\ \A h \in HeaderChoices : AssignedText(set_headers(R, AsText(h)), AsText(h))
          /\ \A b \in HeaderChoices \cup InvalidHeaderChoices :
                 AssignedBytes(set_byte_headers(R, b), b))
    /\ [][Manual(state) => (state'.headers = state.headers \/ state' \in Assignments)]_vars

\* A header that is not text was set by hand on a stream that had lost its
\* header by seeking, and it is still cached after a later read has handed
\* back a record.
C13_Witness ==
    /\ hist.sets
    /\ state.seeked
    /\ Manual(state)
    /\ state.headers.some.byte_record \in InvalidHeaderChoices
    /\ state.cur_pos.record >= 1
    /\ ret # None /\ ret.some.ok /\ ~ret.some.val
    /\ Fields(record) # Fields(state.headers.some.byte_record)
    /\ ByteHeadersNow.ret = Ok(state.headers.some.byte_record)

\* --------------------------------------------- position() and the next read
\* The next read on the current reader.
NextRead == read_record_bytes(R, record, capacity, None)

\* The read hands back what the tokenizer makes of the source at `p`, and
\* leaves the stream after it.
ReadsRecordAt(t, p) ==
    /\ Fields(t.record) = p.fields
    /\ position(t.R) = p.end
    /\ t.ret.ok => (t.ret.val = ~p.is_record)

\* The next read replays the cached header: has_headers is unset, no record
\* was delivered yet, and a header is cached.
ReplayDue(st) == ~st.has_headers /\ ~st.first /\ st.headers # None

\* The next read skips the header row: has_headers is set and the read fills
\* the header cache.
SkipDue(st) == st.has_headers /\ ~st.seeked /\ st.headers = None

C14_WitnessReplay ==
    /\ ReplayDue(state)
    /\ position(R).byte > 0
    /\ Fields(NextRead.record) = Phys(inner, 1)
    /\ ParseAt(inner, position(R)).fields # Phys(inner, 1)

\* ------------------------------------------------- positions without a seek
\* The number of physical records that end after byte offset `from` and at
\* or before byte offset `to`.
CompletedIn(from, to) ==
    LET Count(P) == Cardinality({i \in 1..Len(P) :
                                    P[i].end.byte > from /\ P[i].end.byte <= to})
    IN  Count(Physical(inner))

\* C15: on a stream that starts at (byte 0, line 1, record 0) and is not
\* moved by a seek, the record index is the number of physical records the
\* tokenizer has completed so far; no step lowers the byte offset or the
\* line, and every step raises the record index by the number of records it
\* completes: by one for a record handed back or rejected with a length
\* mismatch, by nothing at the end of the stream and on the replay of the
\* header.
C15_RecordIndexCountsParsed ==
    /\ [](~hist.seeks => state.cur_pos.record = CompletedIn(-1, state.cur_pos.byte))
    /\ [][~hist'.seeks =>
            /\ state'.cur_pos.byte >= state.cur_pos.byte
            /\ state'.cur_pos.line >= state.cur_pos.line
            /\ state'.cur_pos.record =
                   state.cur_pos.record
                       + CompletedIn(state.cur_pos.byte, state'.cur_pos.byte)
            /\ (ReplayDue(state) /\ ~ReplayDue(state')) =>
                   state'.cur_pos = state.cur_pos
            /\ (state.eof /\ state'.eof) => state'.cur_pos = state.cur_pos]_vars

\* The third physical record was rejected with a length mismatch, and the
\* record index is 3.
C15_Witness ==
    /\ ~hist.seeks
    /\ ret # None /\ IsMismatch(ret.some)
    /\ state.cur_pos.record = 3
    /\ CompletedIn(-1, state.cur_pos.byte) = 3
    /\ state.cur_pos.line = 3

\* ------------------------------------------------------------- raw seeks
\* seek_raw to record boundary `pos` on the current reader.
AfterSeekRaw(pos) == seek_raw(R, pos.byte, pos, FALSE).R

\* The reads hand back the records of P in order, none of them as the end of
\* the stream, and the read after the last reports the end.
ReadsAre(reads, P) ==
    /\ Len(reads) = Len(P) + 1
    /\ \A i \in 1..Len(P) :
           /\ reads[i].at = P[i].start
           /\ reads[i].fields = P[i].fields
           /\ ~reads[i].eof
    /\ reads[Len(P) + 1].eof
    /\ reads[Len(P) + 1].fields = << >>

\* The stream is at its end and the last read said so.
ToldEof == state.eof /\ ret # None /\ IsEof(ret.some)

\* C16: in every state, seek_raw to `pos` leaves the previous and the current
\* position at pos, the end-of-stream flag cleared and the stream marked
\* seeked, and the rest of the stream state as it was; and when the reads had
\* reached the end of the stream, the reads after a raw seek to a record
\* boundary hand back the records from that boundary on, and then the end of
\* the stream.
C16_SeekRawRepositions ==
    LET Moved(r, pos) ==
            /\ r.state = [state EXCEPT !.prev_pos = pos, !.cur_pos = pos,
                                       !.eof = FALSE, !.seeked = TRUE]
            /\ position(r) = pos
            /\ r.core = core_set_line(CoreReader_new, pos.line)
        Resumes(r, P) == ReadsAre(ReadsFrom(r, record, Len(P) + 1), P)
    IN  \A pos \in Boundaries(inner) :
            /\ Moved(AfterSeekRaw(pos), pos)
            /\ ToldEof => Resumes(AfterSeekRaw(pos), PhysicalFrom(inner, pos))

\* The reads reached the end of a stream of three records, and after a raw
\* seek to the start of the second the next read hands it back.
C16_Witness ==
    /\ ToldEof
    /\ Len(Physical(inner)) = 3
    /\ LET P == Physical(inner)
       IN  /\ P[2].fields # P[3].fields
           /\ ReadsFrom(AfterSeekRaw(P[2].start), record, 1)[1]
                  = [at |-> P[2].start, fields |-> P[2].fields, eof |-> FALSE]

\* ------------------------------------------------- seeks that do not move
\* Positions with the current byte offset: the current position, one with
\* another line and record index, and one with the line and record index of
\* the start.
AtCurrentByte ==
    {state.cur_pos, [Position_new EXCEPT !.byte = state.cur_pos.byte]}
        \cup SamePlace(state.cur_pos)

\* C17: seek(pos) with pos.byte equal to the current byte offset succeeds
\* and leaves the tokenizer, the byte source and the whole stream state as
\* they were, whatever pos.line and pos.record are, in every state, the end
\* of the stream included; the source is not asked to seek, so a source
\* whose seek fails makes no difference.
C17_SeekToCurrentByteIsNoop ==
    \A pos \in AtCurrentByte, fail \in BOOLEAN :
        seek(R, pos, fail) = [R |-> R, ret |-> Ok(TRUE)]

\* The stream is at its end, never seeked, with its header cached from the
\* stream, and a seek to the current byte offset with another line and
\* record index has left it so.
C17_Witness ==
    /\ ToldEof
    /\ ~state.seeked
    /\ state.cur_pos.byte > 0
    /\ CachedFromStream(state)
    /\ \A pos \in SamePlace(state.cur_pos) : seek(R, pos, TRUE).R = R

\* ------------------------------------------------------- the header replay
\* The read handed back a copy of the cached header and did no tokenizer
\* work: the tokenizer and the byte source are as they were, and of the
\* stream state only `first` is set.
Replayed(t) ==
    /\ t.record = state.headers.some.byte_record
    /\ t.R.core = core
    /\ t.R.rdr = rdr
    /\ t.R.state = [state EXCEPT !.first = TRUE]
    /\ t.ret = Ok(state.eof)

\* The read was a physical read: it handed back what the tokenizer makes of
\* the source at position(), or, when it skipped the header row, of the
\* source after that row, and marked a record as delivered unless it failed.
PhysicalRead(t) ==
    LET At(p) == IF SkipDue(state) THEN ReadsRecordAt(t, ParseAt(inner, p.end))
                 ELSE ReadsRecordAt(t, p)
    IN  /\ At(ParseAt(inner, position(R)))
        /\ t.ret.ok => t.R.state.first

\* C18 as stated: the read replays the cached header when has_headers is
\* set (the header row is suppressed), no record was delivered yet and a
\* header is cached, and is a physical read otherwise.
C18_Original ==
    IF state.has_headers /\ ~state.first /\ state.headers # None
    THEN Replayed(NextRead)
    ELSE PhysicalRead(NextRead)

\* C18: the read replays the cached header when has_headers is unset (the
\* header row is not suppressed), no record was delivered yet and a header
\* is cached, and is a physical read in every other case.
C18_ReplayWhenNotSuppressed ==
    IF ~state.has_headers /\ ~state.first /\ state.headers # None
    THEN Replayed(NextRead)
    ELSE PhysicalRead(NextRead)

\* With has_headers unset, headers() was called before the first read; the
\* stream is past the header row, the next read hands the header back, and
\* the record at the stream's position is another one.
C18_Witness ==
    /\ ~state.has_headers /\ ~state.first /\ CachedFromStream(state)
    /\ ret = None
    /\ position(R).byte > 0
    /\ Replayed(NextRead)
    /\ Fields(NextRead.record) = Phys(inner, 1)
    /\ ParseAt(inner, position(R)).is_record
    /\ ParseAt(inner, position(R)).fields # Phys(inner, 1)

\* What a replay leaves: no error, the cached header in the caller's record,
\* and the reader as it was but for `first`.
ReplayFrame(t) ==
    /\ t.ret.ok
    /\ t.ret.val = state.eof
    /\ t.record = state.headers.some.byte_record
    /\ t.R = [R EXCEPT !.state.first = TRUE]
    /\ ~ReplayDue(t.R.state)

\* C19: a read that replays the cached header returns without error,
\* whatever the header's field count and the expected one, hands back the
\* cached header, and changes nothing of the stream but `first`: positions,
\* record index, expected field count, header cache, seeked and eof flags,
\* tokenizer and byte source are as before; and `first`, once set, stays set,
\* so that no later read of the stream is a replay.
C19_ReplayOnceUnchecked ==
    /\ [](ReplayDue(state) => ReplayFrame(NextRead))
    /\ [][state.first => state'.first /\ ~ReplayDue(state')]_vars

\* With has_headers unset in strict mode, headers() has set the expected
\* field count to 1, a header of two fields was set by hand, and the next
\* read replays it without a length mismatch.
C19_Witness ==
    /\ ReplayDue(state)
    /\ ~state.flexible
    /\ state.first_field_count = Some(1)
    /\ state.headers.some.byte_record.len = 2
    /\ state.cur_pos.record = 1
    /\ NextRead.ret.ok
    /\ Fields(NextRead.record) = << <<CHAR_A>>, <<CHAR_A>> >>
    /\ NextRead.R.state.cur_pos = state.cur_pos

\* ------------------------------------------------ the expected field count
\* After call `t` on a stream with no expected field count: the count is
\* that of the record at position() when the call completed a record, and
\* still unset when it completed none.
FirstCompletedSets(t) ==
    t.R.state.first_field_count =
        IF position(t.R).record > position(R).record
        THEN Some(Len(ParseAt(inner, position(R)).fields))
        ELSE None

\* C20: in flexible mode the expected field count is never set.  In strict
\* mode it is unset until the tokenizer completes a record, is set by the
\* first record completed, whether through a read, a read that skips the
\* header row, headers() or byte_headers(), to that record's field count (on
\* a stream not seeked: the first physical record's), and no step changes it
\* once it is set.
C20_ExpectedCountSetOnce ==
    /\ [](state.flexible => state.first_field_count = None)
    /\ []((~state.flexible /\ ~hist.seeks) =>
             state.first_field_count =
                 IF state.cur_pos.record = 0 THEN None
                 ELSE Some(Len(Phys(inner, 1))))
    /\ []((~state.flexible /\ state.first_field_count = None) =>
             /\ FirstCompletedSets(NextRead)
             /\ FirstCompletedSets(HeadersNow)
             /\ FirstCompletedSets(ByteHeadersNow))
    /\ [][state.first_field_count # None =>
             state'.first_field_count = state.first_field_count]_vars

\* In strict mode the expected count is 1, the count of the first physical
\* record, after a length mismatch, a seek and a header of two fields set by
\* hand.
C20_Witness ==
    /\ ~state.flexible
    /\ state.seeked
    /\ hist.sets
    /\ Manual(state)
    /\ state.headers.some.byte_record.len = 2
    /\ ret # None /\ IsMismatch(ret.some)
    /\ ret.some.err.len = 2
    /\ state.first_field_count = Some(1)
    /\ Len(Phys(inner, 1)) = 1

\* ------------------------------------------------ the cache after a seek
\* The stream was seeked with no header cached.
SeekedUncached(st) == st.seeked /\ st.headers = None

\* The read handed back the record at position() as data, and cached nothing.
ReadAsData(t) ==
    /\ ReadsRecordAt(t, ParseAt(inner, position(R)))
    /\ t.R.state.headers = None
    /\ t.R.state.seeked

OffendingStart ==
    IF SkipDue(state) THEN ParseAt(inner, position(R)).end ELSE position(R)

\* The error of call `t` is a length mismatch that carries position `p`.
MismatchAt(t, p) == IsMismatch(t.ret) => t.ret.err.pos = p

\* C22: in strict mode, in every state, a length mismatch returned by the
\* next read carries the position the stream had just before the tokenizer
\* began the rejected record, also when the read before was rejected and
\* when the stream was just seeked.
C22_MismatchReportsOwnStart ==
    ~state.flexible => MismatchAt(NextRead, OffendingStart)

\* ------------------------------------------------- how the input arrives
\* The bytes one read of the source delivers at most: short reads, and a
\* whole buffer.
Chunks == (1..MaxChunk) \cup {capacity}

\* The record the caller passes: the one used so far, whose storage has
\* grown, or a new one, whose storage is grown by output-full retries.
CallerRecords == {record, ByteRecord_new}

ReadRecordBytesChunked ==
    \E k \in Chunks, rec \in CallerRecords :
        \E t \in {read_record_bytes(R, rec, k, None)} :
            /\ SetReader(t.R)
            /\ record' = t.record
            /\ ret' = Some(t.ret)
            /\ hist' = See(CountRead(hist), t.R)

HeadersChunked ==
    \E k \in Chunks :
        \E t \in {headers(R, k, None)} :
            /\ SetReader(t.R)
            /\ hist' = See(hist, t.R)
            /\ UNCHANGED << record, ret >>

NextChunks ==
    \/ ReadRecordBytesChunked
    \/ HeadersChunked
    \/ SeekRaw

\* The reader over a source that delivers its bytes in pieces of any size.
SpecChunks == Init /\ [][NextChunks]_vars

\* A read with pieces of at most `k` bytes into record `rec`.
ChunkedRead(k, rec) == read_record_bytes(R, rec, k, None)

\* The read is what the tokenizer makes of the whole source from position()
\* on: the replay of the header, the record after the header row, or the
\* record at position().
ReadsWhole(t) ==
    LET At(p) ==
            IF ReplayDue(state)
            THEN /\ Fields(t.record) = Fields(state.headers.some.byte_record)
                 /\ position(t.R) = position(R)
            ELSE IF SkipDue(state) THEN ReadsRecordAt(t, ParseAt(inner, p.end))
            ELSE ReadsRecordAt(t, p)
    IN  At(ParseAt(inner, position(R)))

\* C23: whatever pieces the input has arrived in so far and whatever storage
\* the caller's record has, the next read, with pieces of any size and with
\* the record used so far or a new one, hands back the same record, result
\* or error, position and header cache as a read that gets the rest of the
\* input at once, and that is the record the tokenizer makes of the whole
\* source at that position.
C23_ChunkingIsInvisible ==
    LET Same(t, whole) == Outcome(t) = Outcome(whole) /\ ReadsWhole(t)
    IN  \A k \in Chunks, rec \in CallerRecords : Same(ChunkedRead(k, rec), NextRead)

\* A record of two fields was read in pieces: the source has delivered the
\* input up to the end of that record and no further, and the read handed
\* back the physical record it stood at, with the position after it.
C23_Witness ==
    /\ Counted
    /\ ret.some.ok /\ ~ret.some.val
    /\ Len(Fields(record)) = 2
    /\ Fields(record) = Phys(inner, LastIndex)
    /\ rdr.filled = 0
    /\ rdr.pos < Len(inner)
    /\ state.cur_pos = Physical(inner)[LastIndex].end
    /\ state.cur_pos.byte = rdr.pos


\* The capacities a reader can be built with: buffer_capacity takes any
\* number of bytes, none included.
Capacities == (0..MaxChunk) \cup {capacity}

\* C23 as stated: for every buffer capacity, a read hands back the same
\* record, result or error, position and header cache as a read that gets
\* the rest of the input at once.
C23_AnyCapacity ==
    \A k \in Capacities, rec \in CallerRecords :
        Outcome(ChunkedRead(k, rec)) = Outcome(NextRead)

\* ------------------------------------------------ the read loop, step by step
\* One iteration of the loop of read_record_bytes_impl: what it leaves of the
\* reader, the record and the two output offsets, whether it ended the loop,
\* and what the call then returns.
loop_iteration(r, rec, outlen, endlen, k) ==
    LET Continue(r1, rec1, out1, end1) ==
            [done |-> FALSE, R |-> r1, record |-> rec1,
             outlen |-> out1, endlen |-> end1, ret |-> Ok(FALSE)]
        Break(r1, rec1, res) ==
            [done |-> TRUE, R |-> r1, record |-> rec1,
             outlen |-> 0, endlen |-> 0, ret |-> res]
        Added(r1, rec1, end1, a) ==
            Break([r1 EXCEPT !.state = a.state], set_len(rec1, end1),
                  IF a.err # None THEN Err(a.err.some) ELSE Ok(a.state.eof))
        Matched(res, r1, rec1, out1, end1) ==
            CASE res = "InputEmpty" -> Continue(r1, rec1, out1, end1)
              [] res = "OutputFull" -> Continue(r1, expand_fields(rec1), out1, end1)
              [] res = "OutputEndsFull" -> Continue(r1, expand_ends(rec1), out1, end1)
              [] res = "Record" -> Added(r1, rec1, end1, add_record(r1.state, end1))
              [] res = "End" -> Break([r1 EXCEPT !.state.eof = TRUE], rec1, Ok(TRUE))
        Parsed(rdr1, t) ==
            Matched(t.res,
                    [core |-> t.core,
                     rdr |-> consume(rdr1, t.nin),
                     state |-> [r.state EXCEPT !.cur_pos.byte = @ + t.nin,
                                               !.cur_pos.line = core_line(t.core)]],
                    write_parts(rec, outlen, endlen, t.out, t.ends),
                    outlen + Len(t.out),
                    endlen + Len(t.ends))
        Filled(rdr1) ==
            {Parsed(rdr1, t) :
                 t \in {core_read_record(r.core, buffer(rdr1),
                                         Len(rec.fields) - outlen,
                                         Len(rec.ends) - endlen)}}
    IN  CHOOSE it \in UNION {Filled(rdr1) : rdr1 \in {fill_buf(r.rdr, k)}} : TRUE

\* Where a call of read_record_bytes stands: returned with `res`, or in the
\* loop of its first or second read_record_bytes_impl.
Returned(r, rec, res) ==
    [R |-> r, record |-> rec, ret |-> Some(res), pc |-> "idle", outlen |-> 0, endlen |-> 0]

InLoop(r, rec, pc, outlen, endlen) ==
    [R |-> r, record |-> rec, ret |-> None, pc |-> pc, outlen |-> outlen, endlen |-> endlen]

\* read_record_bytes after its first read_record_bytes_impl has returned
\* `res`: the error is passed on; else the record is marked delivered and,
\* on a stream not seeked with no header cached, cached as the header, after
\* which a reader with has_headers set reads the next record.
after_first_impl(r, rec, res, pos) ==
    LET Skip(r2) ==
            IF r2.state.eof THEN Returned(r2, clear(rec), Ok(TRUE))
            ELSE InLoop(r2, clear(rec), "second", 0, 0)
        Cache(r2) == IF r2.state.has_headers THEN Skip(r2) ELSE Returned(r2, rec, res)
        First(r1) ==
            IF caches_headers(r1.state)
            THEN Cache([r1 EXCEPT !.state = set_headers_pos(r1.state, Err(rec), Some(pos))])
            ELSE Returned(r1, rec, res)
    IN  IF ~res.ok THEN Returned(r, rec, res)
        ELSE First([r EXCEPT !.state.first = TRUE])

\* The entry of read_record_bytes, up to the loop of the first
\* read_record_bytes_impl.
enter_read_record_bytes(r, rec) ==
    IF replays_header(r.state)
    THEN Returned([r EXCEPT !.state.first = TRUE], r.state.headers.some.byte_record,
                  Ok(r.state.eof))
    ELSE IF r.state.eof THEN after_first_impl(r, clear(rec), Ok(TRUE), position(r))
    ELSE InLoop(r, clear(rec), "first", 0, 0)

\* One iteration, and what follows when it ends the loop.
iterate(r, rec, pc, outlen, endlen, k, pos) ==
    LET After(it) ==
            IF ~it.done THEN InLoop(it.R, it.record, pc, it.outlen, it.endlen)
            ELSE IF pc = "first" THEN after_first_impl(it.R, it.record, it.ret, pos)
            ELSE Returned(it.R, it.record, it.ret)
    IN  CHOOSE m \in {After(it) : it \in {loop_iteration(r, rec, outlen, endlen, k)}} : TRUE

\* A reader built with any buffer capacity of at least one byte.  The
\* history holds where the call in progress stands (pc, outlen, endlen), the
\* position the call started at (pos), the capacity (k), and the reader and
\* record the last call started from (from).
InitLoop ==
    \E src \in Inputs, has_headers \in BOOLEAN, flexible \in BOOLEAN, k \in Chunks :
        /\ core = Reader_new(has_headers, flexible, src).core
        /\ rdr = Reader_new(has_headers, flexible, src).rdr
        /\ state = Reader_new(has_headers, flexible, src).state
        /\ record = ByteRecord_new
        /\ ret = None
        /\ hist = [pc |-> "idle", outlen |-> 0, endlen |-> 0, k |-> k,
                   pos |-> Position_new, from |-> None]

Stand(m, from, pos) ==
    /\ SetReader(m.R)
    /\ record' = m.record
    /\ ret' = m.ret
    /\ hist' = [hist EXCEPT !.pc = m.pc, !.outlen = m.outlen, !.endlen = m.endlen,
                            !.from = from, !.pos = pos]

\* The caller calls read_record_bytes with the record used so far.
CallReadRecordBytes ==
    /\ hist.pc = "idle"
    /\ \E m \in {enter_read_record_bytes(R, record)} :
           Stand(m, Some([R |-> R, record |-> record]), position(R))

\* The loop runs one iteration.
LoopIteration ==
    /\ hist.pc # "idle"
    /\ \E m \in {iterate(R, record, hist.pc, hist.outlen, hist.endlen, hist.k, hist.pos)} :
           Stand(m, hist.from, hist.pos)

NextLoop ==
    \/ CallReadRecordBytes
    \/ LoopIteration

\* A call in progress runs on, and the caller keeps reading.
SpecLoop ==
    /\ InitLoop
    /\ [][NextLoop]_vars
    /\ WF_vars(LoopIteration)
    /\ WF_vars(CallReadRecordBytes)

\* The call that has returned did what read_record_bytes does as a whole.
LoopAgrees ==
    (hist.pc = "idle" /\ hist.from # None) =>
        read_record_bytes(hist.from.some.R, hist.from.some.record, hist.k, None)
            = [R |-> R, record |-> record, ret |-> ret.some]

\* An iteration that goes round again has consumed input or grown the
\* output storage.
Progress ==
    (hist.pc # "idle" /\ hist'.pc = hist.pc) =>
        \/ state'.cur_pos.byte > state.cur_pos.byte
        \/ Len(record'.fields) > Len(record.fields)
        \/ Len(record'.ends) > Len(record.ends)

\* C24: on a finite input whose source does not fail, every call of
\* read_record_bytes that has entered the loop returns; every iteration that
\* does not end the loop consumes input or grows the output storage; and a
\* caller that keeps reading is told the end of the stream, from when on
\* every read says so again.
C24_ReadsTerminate ==
    /\ (hist.pc # "idle") ~> (hist.pc = "idle")
    /\ [][Progress]_vars
    /\ <>[](state.eof /\ (hist.pc = "idle" => IsEof(ret.some)))

\* A call has gone round the loop, with part of a record written and the
\* source's bytes not all consumed, after an earlier call has returned a
\* record.
C24_Witness ==
    /\ hist.pc = "first"
    /\ hist.outlen > 0
    /\ state.cur_pos.record >= 1
    /\ rdr.pos < Len(inner)
    /\ hist.k = 1

==========================================================================
